---------------------------- MODULE Spec2Model ----------------------------
(***************************************************************************)
(* WASP baseline tools: the CIS Excel to JSON converter                    *)
(* (tools/cis-excel-to-json.py), the check_type corrector                  *)
(* (tools/fix_check_types.py) and the check_type validator                 *)
(* (tools/validate_check_types.py).                                        *)
(*                                                                         *)
(* Text is modelled as TLA+ strings, i.e. sequences of characters, and is  *)
(* taken apart with Len, SubSeq and \o exactly as the Python code takes it *)
(* apart with `in`, str.replace and the re module.  Python's None is the   *)
(* value None below; a dict is a function from its keys to their values.   *)
(***************************************************************************)
EXTENDS Naturals, Sequences, FiniteSets, TLC

VARIABLES
    fn,            \* pure-function harness: the function that was called
    in_title,      \* pure-function harness: its title argument
    in_check,      \* pure-function harness: its check argument
    out,           \* pure-function harness: the value it returned
    all_rules,     \* process_excel_file: the list all_rules
    row,           \* process_excel_file: the row the loop body last ran on
    pc,            \* converter main: where the run is
    baseline,      \* the baseline document (converter output, corrector input)
    loaded,        \* the baseline as the corrector was given it
    changes_made,  \* fix_check_types: the change list it last returned
    before,        \* the baseline as it was before the last fix_check_types
    applications,  \* how many times fix_check_types has been applied
    results,       \* validate_baseline: the dict results
    rule_index,    \* validate_baseline: how many rules the loop has taken
    analysis,      \* validate_baseline: what analyze_rule last returned
    status,        \* validate_baseline: the status of the rule last taken
    validator_pc,  \* validate_baseline: where the call is
    disk,          \* corrector main: the files, by path
    now,           \* corrector main: datetime.now() when main started
    main_pc        \* corrector main: where the run is

validator_vars == <<results, rule_index, analysis, status, validator_pc>>

main_vars == <<disk, now, main_pc>>

vars == <<fn, in_title, in_check, out, all_rules, row, pc,
          baseline, loaded, changes_made, before, applications,
          validator_vars, main_vars>>

-----------------------------------------------------------------------------
(* Python values and string primitives *)

\* Python's None: a value no text of the model is equal to.
None == "<None>"

\* A harness result that no call has produced yet.
Unset == "<unset>"

CharAt(s, i) == IF i \in 1..Len(s) THEN SubSeq(s, i, i) ELSE ""

\* The slice s[i-1:j] of Python: positions i..j, cut at the end of s.
Slice(s, i, j) ==
    IF i > Len(s) \/ j < i THEN ""
    ELSE SubSeq(s, i, IF j > Len(s) THEN Len(s) ELSE j)

UpperLetters == "ABCDEFGHIJKLMNOPQRSTUVWXYZ"
LowerLetters == "abcdefghijklmnopqrstuvwxyz"

\* The lower-case letter of each upper-case letter.
LowerOf ==
    [c \in {CharAt(UpperLetters, i) : i \in 1..Len(UpperLetters)} |->
        CharAt(LowerLetters,
               CHOOSE i \in 1..Len(UpperLetters) : CharAt(UpperLetters, i) = c)]

LowerChar(c) == IF c \in DOMAIN LowerOf THEN LowerOf[c] ELSE c

\* str.lower(): every character lowered, the string split in halves so that
\* the recursion stays shallow.
RECURSIVE lower(_)
lower(s) ==
    IF Len(s) <= 1 THEN LowerChar(s)
    ELSE lower(SubSeq(s, 1, Len(s) \div 2))
             \o lower(SubSeq(s, Len(s) \div 2 + 1, Len(s)))

\* The regular expression classes \s and \d, and the class [^,\s] that every
\* capturing pattern of the converter uses.
IsSpace(c) == c \in {" ", "\t", "\n", "\r", "\f"}
IsDigit(c) == c \in {"0", "1", "2", "3", "4", "5", "6", "7", "8", "9"}
IsTokenChar(c) == c # "" /\ c # "," /\ ~IsSpace(c)

\* The first position at or after i whose character is not a digit
\* (Len(s) + 1 when the digits run to the end): the end of a greedy \d+.
DigitRunEnd(s, i) ==
    CHOOSE j \in i..(Len(s) + 1) :
        /\ \A k \in i..(j - 1) : IsDigit(CharAt(s, k))
        /\ ~IsDigit(CharAt(s, j))

\* The same for a greedy \s+ and a greedy [^,\s]+.
SpaceRunEnd(s, i) ==
    CHOOSE j \in i..(Len(s) + 1) :
        /\ \A k \in i..(j - 1) : IsSpace(CharAt(s, k))
        /\ ~IsSpace(CharAt(s, j))

TokenRunEnd(s, i) ==
    CHOOSE j \in i..(Len(s) + 1) :
        /\ \A k \in i..(j - 1) : IsTokenChar(CharAt(s, k))
        /\ ~IsTokenChar(CharAt(s, j))

\* `k in s` on strings.
Contains(s, k) ==
    \E i \in 1..(Len(s) + 1) :
        /\ i + Len(k) - 1 <= Len(s)
        /\ SubSeq(s, i, i + Len(k) - 1) = k

StartsWith(s, k) == Len(k) <= Len(s) /\ SubSeq(s, 1, Len(k)) = k

\* str.endswith
endswith(s, k) ==
    Len(k) <= Len(s) /\ SubSeq(s, Len(s) - Len(k) + 1, Len(s)) = k

\* str.strip()
RECURSIVE lstrip(_)
lstrip(s) ==
    IF s # "" /\ IsSpace(CharAt(s, 1)) THEN lstrip(SubSeq(s, 2, Len(s))) ELSE s

RECURSIVE rstrip(_)
rstrip(s) ==
    IF s # "" /\ IsSpace(CharAt(s, Len(s)))
    THEN rstrip(SubSeq(s, 1, Len(s) - 1)) ELSE s

strip(s) == rstrip(lstrip(s))

\* The least element of a non-empty set of positions: re.search reports the
\* leftmost match.
LeftMost(S) == CHOOSE i \in S : \A j \in S : i <= j

\* str.replace(old, new): every non-overlapping occurrence, left to right.
RECURSIVE replace(_, _, _)
replace(s, old, new) ==
    LET hits == {i \in 1..Len(s) : Slice(s, i, i + Len(old) - 1) = old}
    IN  IF hits = {} THEN s
        ELSE LET i == LeftMost(hits)
             IN  Slice(s, 1, i - 1) \o new
                     \o replace(Slice(s, i + Len(old), Len(s)), old, new)

\* dict.get(key), with the default None.
Get(d, key) == IF key \in DOMAIN d THEN d[key] ELSE None

-----------------------------------------------------------------------------
(* cis-excel-to-json.py: the text normalizer and the extractors *)

\* re.sub(r'\s+', ' ', text): every run of whitespace becomes one space.
\* Positions lo..hi of s are rewritten: the first character of a whitespace
\* run becomes a space, the rest of the run disappears.
RECURSIVE collapse_range(_, _, _)
collapse_range(s, lo, hi) ==
    IF lo > hi THEN ""
    ELSE IF lo = hi
         THEN IF ~IsSpace(CharAt(s, lo)) THEN CharAt(s, lo)
              ELSE IF IsSpace(CharAt(s, lo - 1)) THEN "" ELSE " "
         ELSE collapse_range(s, lo, (lo + hi) \div 2)
                  \o collapse_range(s, (lo + hi) \div 2 + 1, hi)

collapse_whitespace(s) == collapse_range(s, 1, Len(s))

\* clean_text: a missing cell (None) is "", anything else is stripped and
\* its whitespace runs collapsed.
clean_text(text) ==
    IF text = None THEN "" ELSE collapse_whitespace(strip(text))

\* extract_rule_id: re.match(r'^(\d+\.\d+\.\d+)', title.strip()).  Each \d+
\* is greedy and must be followed by a literal dot, so no backtracking can
\* produce a match that the maximal digit runs do not.
extract_rule_id(title) ==
    IF title = "" THEN None
    ELSE LET t  == strip(title)
             e1 == DigitRunEnd(t, 1)
             e2 == DigitRunEnd(t, e1 + 1)
             e3 == DigitRunEnd(t, e2 + 1)
         IN  IF /\ e1 > 1
                /\ CharAt(t, e1) = "."
                /\ e2 > e1 + 1
                /\ CharAt(t, e2) = "."
                /\ e3 > e2 + 1
             THEN SubSeq(t, 1, e3 - 1)
             ELSE None

service_title_keywords == {"service", "spooler", "telnet", "tftp", "snmp"}
registry_check_keywords == {"registry", "regedit", "hklm", "hkcu", "hkey"}
audit_title_keywords == {"audit", "auditing", "logon", "logoff"}
security_title_keywords == {"security policy", "secedit", "local policy"}

\* any(keyword in text for keyword in keywords)
AnyIn(keywords, text) == \E keyword \in keywords : Contains(text, keyword)

\* Mutant: the service rule reads the check text instead of the title.
determine_check_type_service_on_check(title, check) ==
    LET title_lower == lower(title)
        check_lower == lower(check)
    IN  IF AnyIn(service_title_keywords, check_lower) THEN "service"
        ELSE IF AnyIn(registry_check_keywords, check_lower) THEN "registry"
        ELSE IF AnyIn(audit_title_keywords, title_lower) THEN "audit_policy"
        ELSE IF AnyIn(security_title_keywords, title_lower)
             THEN "security_policy"
        ELSE "registry"

\* Mutant: "snmp" is missing from the service keywords.
determine_check_type_no_snmp(title, check) ==
    LET title_lower == lower(title)
        check_lower == lower(check)
    IN  IF AnyIn(service_title_keywords \ {"snmp"}, title_lower)
        THEN "service"
        ELSE IF AnyIn(registry_check_keywords, check_lower) THEN "registry"
        ELSE IF AnyIn(audit_title_keywords, title_lower) THEN "audit_policy"
        ELSE IF AnyIn(security_title_keywords, title_lower)
             THEN "security_policy"
        ELSE "registry"

\* Mutant: the fallback is security_policy.
determine_check_type_default_secpol(title, check) ==
    LET title_lower == lower(title)
        check_lower == lower(check)
    IN  IF AnyIn(service_title_keywords, title_lower) THEN "service"
        ELSE IF AnyIn(registry_check_keywords, check_lower) THEN "registry"
        ELSE IF AnyIn(audit_title_keywords, title_lower) THEN "audit_policy"
        ELSE IF AnyIn(security_title_keywords, title_lower)
             THEN "security_policy"
        ELSE "security_policy"

\* determine_check_type: an ordered list of rules, the first match returns.
determine_check_type(title, check) ==
    LET title_lower == lower(title)
        check_lower == lower(check)
    IN  IF AnyIn(service_title_keywords, title_lower) THEN "service"
        ELSE IF AnyIn(registry_check_keywords, check_lower) THEN "registry"
        ELSE IF AnyIn(audit_title_keywords, title_lower) THEN "audit_policy"
        ELSE IF AnyIn(security_title_keywords, title_lower)
             THEN "security_policy"
        ELSE "registry"


\* A case-insensitive literal of a pattern, matched at position i of s:
\* low is lower(s) and lit is in lower case.
LitAt(low, i, lit) == Slice(low, i, i + Len(lit) - 1) = lit

\* The start positions of the matches of  <literal>[^,\s]+  in check under
\* re.IGNORECASE.
LiteralTokenMatches(check, literal) ==
    LET low == lower(check)
        lit == lower(literal)
    IN  {i \in 1..Len(check) :
            /\ i + Len(lit) <= Len(check)
            /\ LitAt(low, i, lit)
            /\ IsTokenChar(CharAt(check, i + Len(lit)))}

\* re.search(<literal>[^,\s]+, check, re.IGNORECASE).group(0), or None.
search_group0(literal, check) ==
    LET hits == LiteralTokenMatches(check, literal)
    IN  IF hits = {} THEN None
        ELSE LET i == LeftMost(hits)
             IN  SubSeq(check, i, TokenRunEnd(check, i + Len(literal)) - 1)

\* re.search(<literal>([^,\s]+), check, re.IGNORECASE).group(1), or None.
search_group1(literal, check) ==
    LET hits == LiteralTokenMatches(check, literal)
    IN  IF hits = {} THEN None
        ELSE LET i == LeftMost(hits)
             IN  SubSeq(check, i + Len(literal),
                        TokenRunEnd(check, i + Len(literal)) - 1)

\* re.search(<head>\s+<tail>([^,\s]+), check, re.IGNORECASE).group(1), or
\* None.  The tail starts with a letter, so the greedy \s+ takes the whole
\* whitespace run.
search_labelled(head, tail, check) ==
    LET low  == lower(check)
        h    == lower(head)
        t    == lower(tail)
        Gap(i) == SpaceRunEnd(check, i + Len(h))
        hits == {i \in 1..Len(check) :
                    /\ LitAt(low, i, h)
                    /\ Gap(i) > i + Len(h)
                    /\ LitAt(low, Gap(i), t)
                    /\ IsTokenChar(CharAt(check, Gap(i) + Len(t)))}
    IN  IF hits = {} THEN None
        ELSE LET j == Gap(LeftMost(hits)) + Len(t)
             IN  SubSeq(check, j, TokenRunEnd(check, j) - 1)

\* registry_patterns, in the order the loop tries them.  A pattern without a
\* group yields group(0), a pattern with one yields group(1).
registry_patterns ==
    << [groups |-> 0, head |-> "HKLM\\",               tail |-> ""],
       [groups |-> 0, head |-> "HKCU\\",               tail |-> ""],
       [groups |-> 0, head |-> "HKEY_LOCAL_MACHINE\\", tail |-> ""],
       [groups |-> 0, head |-> "HKEY_CURRENT_USER\\",  tail |-> ""],
       [groups |-> 1, head |-> "Registry Hive: HKEY_LOCAL_MACHINE",
                      tail |-> "Registry Path: "],
       [groups |-> 1, head |-> "Registry Hive: HKEY_CURRENT_USER",
                      tail |-> "Registry Path: "] >>

\* match.group(0) if match.groups() == () else match.group(1), or None when
\* the pattern does not match.
pattern_path(pattern, check) ==
    IF pattern.groups = 0
    THEN search_group0(pattern.head, check)
    ELSE search_labelled(pattern.head, pattern.tail, check)

\* The "Normalize path format" block of parse_registry_target.  str.replace
\* is case-sensitive.
normalize_registry_path(path) ==
    LET p1 == replace(path, "HKEY_LOCAL_MACHINE", "HKLM:")
        p2 == replace(p1, "HKEY_CURRENT_USER", "HKCU:")
    IN  IF ~endswith(p2, ":")
        THEN replace(replace(p2, "HKLM\\", "HKLM:\\"), "HKCU\\", "HKCU:\\")
        ELSE p2

\* parse_registry_target: the first pattern that matches decides.
parse_registry_target(check) ==
    LET hits == {k \in 1..Len(registry_patterns) :
                    pattern_path(registry_patterns[k], check) # None}
    IN  IF hits = {} THEN None
        ELSE normalize_registry_path(
                 pattern_path(registry_patterns[LeftMost(hits)], check))

\* The loop shared by the label extractors: the first label of the list
\* that matches yields its group(1).strip(); a token holds no whitespace, so
\* strip() returns it as it is.
first_label_capture(labels, check) ==
    LET hits == {k \in 1..Len(labels) : search_group1(labels[k], check) # None}
    IN  IF hits = {} THEN None
        ELSE strip(search_group1(labels[LeftMost(hits)], check))

\* parse_registry_name
parse_registry_name(check) ==
    first_label_capture(
        <<"Value Name: ", "Registry Value: ", "Value: ", "Name: ">>, check)

\* parse_expected_value
parse_expected_value(check) ==
    first_label_capture(
        <<"Expected: ", "Value: ", "Setting: ", "Configured to: ",
          "Set to: ", "Should be: ">>, check)

\* The empty dict, and a dict of one key that is left out when the value is
\* None or empty (`if value:`).
EmptyDict == [k \in {} |-> None]
Falsy(v) == v = None \/ v = ""
Entry(key, v) == IF Falsy(v) THEN EmptyDict ELSE key :> v

\* parse_service_info
parse_service_info(check) ==
    Entry("service_name", first_label_capture(<<"Service Name: ">>, check))
    @@ Entry("expected_status",
             first_label_capture(
                 <<"Status: ", "Service Status: ", "Should be: ">>, check))
    @@ Entry("expected_start_type",
             first_label_capture(
                 <<"Start Type: ", "Startup Type: ", "Start Mode: ">>, check))

\* parse_audit_policy_info
parse_audit_policy_info(check) ==
    Entry("audit_category", first_label_capture(<<"Category: ">>, check))
    @@ Entry("audit_subcategory",
             first_label_capture(<<"Subcategory: ">>, check))
    @@ Entry("expected_setting",
             first_label_capture(
                 <<"Setting: ", "Should be: ", "Expected: ">>, check))

\* The registry branch of the loop body: target, registry_name and
\* expected_value, each attached only when it was found.
registry_info(check) ==
    Entry("target", parse_registry_target(check))
    @@ Entry("registry_name", parse_registry_name(check))
    @@ Entry("expected_value", parse_expected_value(check))

-----------------------------------------------------------------------------
(* The parts of the state a specification leaves alone *)

NoRow ==
    [title |-> None, check |-> None, level |-> None, emitted |-> FALSE]
NoBaseline == [rules |-> <<>>]

PipelineIdle ==
    /\ all_rules = <<>>
    /\ row = NoRow
    /\ pc = "idle"

CorrectorIdle ==
    /\ baseline = NoBaseline
    /\ loaded = NoBaseline
    /\ changes_made = <<>>
    /\ before = NoBaseline
    /\ applications = 0

HarnessIdle ==
    /\ fn = "none"
    /\ in_title = ""
    /\ in_check = ""
    /\ out = Unset

\* analyze_rule's three results as it initialises them.
NoAnalysis == [suggested_type |-> None, confidence |-> "low", reasons |-> <<>>]

ValidatorIdle ==
    /\ results = EmptyDict
    /\ rule_index = 0
    /\ analysis = NoAnalysis
    /\ status = None
    /\ validator_pc = "idle"

\* A directory without files.
NoFiles == EmptyDict

MainIdle ==
    /\ disk = NoFiles
    /\ now = None
    /\ main_pc = "idle"

-----------------------------------------------------------------------------
(* cis-excel-to-json.py: process_excel_file, create_baseline and main *)

header_titles == {"title", "recommendation", "rule", "na"}

\* "Skip empty or header rows" and "Extract rule ID ... if not rule_id:
\* continue", on the cleaned title.
row_is_skipped(title) ==
    \/ title = ""
    \/ lower(title) \in header_titles
    \/ Falsy(extract_rule_id(title))

\* Mutant: the registry extractors run whatever the check type is.
build_rule_ungated(title, check, level_cell) ==
    LET check_type == determine_check_type(title, check)
        rule == [id |-> extract_rule_id(title), title |-> title,
                 check_type |-> check_type, skip |-> FALSE]
        info == IF check_type = "service" THEN parse_service_info(check)
                ELSE IF check_type = "audit_policy"
                     THEN parse_audit_policy_info(check)
                ELSE EmptyDict
        level == IF level_cell = None THEN EmptyDict
                 ELSE Entry("level", clean_text(level_cell))
    IN  level @@ info @@ registry_info(check) @@ rule

\* The rest of the loop body: the rule dict of a row that is not skipped.
\* title and check are the cleaned cells; level_cell is the raw level cell,
\* None when the sheet has no level column.
build_rule(title, check, level_cell) ==
    LET check_type == determine_check_type(title, check)
        rule == [id |-> extract_rule_id(title), title |-> title,
                 check_type |-> check_type, skip |-> FALSE]
        info == IF check_type = "registry" THEN registry_info(check)
                ELSE IF check_type = "service" THEN parse_service_info(check)
                ELSE IF check_type = "audit_policy"
                     THEN parse_audit_policy_info(check)
                ELSE EmptyDict
        level == IF level_cell = None THEN EmptyDict
                 ELSE Entry("level", clean_text(level_cell))
    IN  level @@ info @@ rule

\* The name of the spreadsheet the run converts.
input_file == "CIS_Windows_Server_2022_Benchmark_v1.0.0.xlsx"

\* Path(file_path).stem: the name without its last suffix.
stem(file_path) ==
    LET dots == {i \in 2..Len(file_path) : CharAt(file_path, i) = "."}
    IN  IF dots = {} THEN file_path
        ELSE SubSeq(file_path, 1,
                    (CHOOSE i \in dots : \A j \in dots : j <= i) - 1)

\* create_baseline
create_baseline(rules, file_path) ==
    LET file_name == stem(file_path)
    IN  [name |-> "CIS " \o replace(replace(file_name, "_", " "), "-", " "),
         version |-> "1.0.0",
         description |-> "CIS benchmark converted from " \o file_name,
         source_file |-> file_path,
         total_rules |-> Len(rules),
         rules |-> rules]

\* The rows of the sheets: raw cells, None for a missing cell, and for the
\* level None when the sheet has no level column.
SheetTitles ==
    {"1.1.1 Ensure Minimum password length is set to 14 or more",
     "18.9.33.6.3 Require a password when a computer wakes (on battery)",
     "18.9.33.6.4  Require a password when a computer wakes (plugged in)",
     " 5.1.1 Print Spooler (Spooler) service ",
     "17.5.1 Audit Logon",
     "2.3.1.1 Accounts: Local Policy"}

SkippedTitles == {"5.1 Print Spooler (Spooler) service", "Title", None}

LabelledHiveCheck ==
    "Registry Hive: HKEY_LOCAL_MACHINE Registry Path: "
        \o "SYSTEM\\CurrentControlSet\\Control\\Lsa"

AllLabelsCheck ==
    "HKLM\\SOFTWARE\\Policies\\X, Value Name: Enabled, Value: 1, "
        \o "Service Name: Spooler, Status: Stopped, Start Type: Disabled, "
        \o "Category: Logon, Subcategory: Logon, Setting: Success"

UiPathCheck ==
    "Navigate to the UI Path,  Service Name: Spooler, Should be: Disabled, "
        \o "Category: Logon"

SheetChecks == {LabelledHiveCheck, AllLabelsCheck, UiPathCheck, None}

SheetRows ==
    {[title |-> t, check |-> c, level |-> None] :
        t \in SheetTitles, c \in SheetChecks}
    \cup {[title |-> t, check |-> UiPathCheck, level |-> " Level 1"] :
        t \in SheetTitles}
    \cup {[title |-> t, check |-> AllLabelsCheck, level |-> None] :
        t \in SkippedTitles}

\* The most rule records one run extracts.
MaxRecords == 2

InitConverter ==
    /\ all_rules = <<>>
    /\ row = NoRow
    /\ pc = "rows"
    /\ HarnessIdle
    /\ CorrectorIdle
    /\ ValidatorIdle
    /\ MainIdle

\* The loop body on one row: whether a rule is appended, and the rule.
loop_body(r) ==
    LET title == clean_text(r.title)
        check == clean_text(r.check)
    IN  IF row_is_skipped(title)
        THEN [emitted |-> FALSE, rule |-> EmptyDict]
        ELSE [emitted |-> TRUE, rule |-> build_rule(title, check, r.level)]

\* The loop body tabulated over the rows of the sheets.
LoopBody == [r \in SheetRows |-> loop_body(r)]

\* One turn of "for index, row in df.iterrows()", on any sheet.
ProcessRow ==
    /\ pc = "rows"
    /\ Len(all_rules) < MaxRecords
    /\ \E r \in SheetRows :
        /\ all_rules' = IF LoopBody[r].emitted
                        THEN Append(all_rules, LoopBody[r].rule)
                        ELSE all_rules
        /\ row' = [title |-> r.title, check |-> r.check, level |-> r.level,
                   emitted |-> LoopBody[r].emitted]
    /\ UNCHANGED <<fn, in_title, in_check, out, pc,
                   baseline, loaded, changes_made, before, applications,
                   validator_vars, main_vars>>

\* main, after process_excel_file returned no rule: sys.exit(1).
ExitNoRules ==
    /\ pc = "rows"
    /\ all_rules = <<>>
    /\ pc' = "exit"
    /\ UNCHANGED <<fn, in_title, in_check, out, all_rules, row,
                   baseline, loaded, changes_made, before, applications,
                   validator_vars, main_vars>>

\* main, after process_excel_file returned rules: create_baseline and
\* json.dump.
WriteBaseline ==
    /\ pc = "rows"
    /\ all_rules # <<>>
    /\ baseline' = create_baseline(all_rules, input_file)
    /\ pc' = "written"
    /\ UNCHANGED <<fn, in_title, in_check, out, all_rules, row,
                   loaded, changes_made, before, applications,
                   validator_vars, main_vars>>

Next ==
    \/ ProcessRow
    \/ ExitNoRules
    \/ WriteBaseline

Spec == InitConverter /\ [][Next]_vars

-----------------------------------------------------------------------------
(* The pure functions, called on their own *)

\* Titles: what may stand before the text of a recommendation, and the text.
TitlePrefixes ==
    {"", "1.1.1 ", "18.9.33.6.3 ", "2.3 ", " 2.3.10.4 ", "1.1. ",
     "(L1) 1.1.1 "}

TitleBodies ==
    {"",
     "Shut down the system",
     "Ensure 'Back up files and directories' is set to 'Administrators'",
     "Allow log on through Remote Desktop Services",
     "Print Spooler (Spooler) service",
     "SNMP Trap",
     "Audit Logon",
     "Ensure Minimum password length is set to 14 or more",
     "Accounts: Local Policy"}

Titles == {p \o b : p \in TitlePrefixes, b \in TitleBodies}

\* Check texts: an introduction followed by a path.
CheckHeads ==
    {"",
     "Navigate to the UI Path: ",
     "The registry value is ",
     "Run regedit, then open ",
     "Registry Hive: HKEY_LOCAL_MACHINE Registry Path: ",
     "Registry Hive: HKEY_CURRENT_USER  Registry Path: "}

CheckTails ==
    {"",
     "HKLM\\Software\\X",
     "hklm\\software\\x, Value Name: y",
     "HKEY_LOCAL_MACHINE\\Software\\X",
     "HKCU\\Software\\X:",
     "Hkey_Current_User\\Software\\X",
     "SYSTEM\\CurrentControlSet\\Control\\Lsa",
     "Services\\Spooler",
     "HKLM\\SYSTEM\\CurrentControlSet\\Services\\Spooler",
     "Computer Configuration\\Policies"}

Checks == {h \o t : h \in CheckHeads, t \in CheckTails}

InitFn ==
    /\ fn = "none"
    /\ in_title \in Titles
    /\ in_check \in Checks
    /\ out = Unset
    /\ PipelineIdle
    /\ CorrectorIdle
    /\ ValidatorIdle
    /\ MainIdle

CallExtractRuleId ==
    /\ fn = "none"
    /\ fn' = "extract_rule_id"
    /\ out' = extract_rule_id(in_title)
    /\ UNCHANGED <<in_title, in_check, all_rules, row, pc,
                   baseline, loaded, changes_made, before, applications,
                   validator_vars, main_vars>>

\* process_excel_file skips a row with an empty title before it classifies.
CallDetermineCheckType ==
    /\ fn = "none"
    /\ in_title # ""
    /\ fn' = "determine_check_type"
    /\ out' = determine_check_type(in_title, in_check)
    /\ UNCHANGED <<in_title, in_check, all_rules, row, pc,
                   baseline, loaded, changes_made, before, applications,
                   validator_vars, main_vars>>

CallParseRegistryTarget ==
    /\ fn = "none"
    /\ fn' = "parse_registry_target"
    /\ out' = parse_registry_target(in_check)
    /\ UNCHANGED <<in_title, in_check, all_rules, row, pc,
                   baseline, loaded, changes_made, before, applications,
                   validator_vars, main_vars>>

NextFn ==
    \/ CallExtractRuleId
    \/ CallDetermineCheckType
    \/ CallParseRegistryTarget

SpecFn == InitFn /\ [][NextFn]_vars

-----------------------------------------------------------------------------
(* fix_check_types.py: the corrector *)

\* Rules that need to be changed from registry to secpol.
registry_to_secpol ==
    {"1.1.6", "2.3.1.2", "2.3.6.4", "2.3.6.5", "2.3.7.7", "2.3.8.3",
     "2.3.10.4", "2.3.11.5", "18.1.2.2", "18.9.25.1", "18.9.25.2",
     "18.9.25.3", "18.9.25.4", "18.9.25.5", "18.9.25.6", "18.9.25.8",
     "18.9.28.6", "18.9.33.6.3", "18.9.33.6.4", "18.10.15.1",
     "18.10.57.2.2", "18.10.57.3.9.1", "18.10.82.1", "18.6.10.2",
     "18.10.16.2", "18.10.41.1", "18.10.56.1", "18.10.57.3.2.1",
     "18.10.57.3.10.1"}

\* Rules that need to be changed from auditpol to secpol.
auditpol_to_secpol == {"1.2.2"}

\* Mutant: a listed rule is fixed whatever its current check_type is.
fix_branch_any_type(rule) ==
    LET rule_id == Get(rule, "id")
    IN  IF rule_id \in registry_to_secpol THEN "registry"
        ELSE IF rule_id \in auditpol_to_secpol THEN "auditpol"
        ELSE "none"

\* Mutant: the registry list is consulted without looking at the id.
fix_branch_any_id(rule) ==
    LET rule_id      == Get(rule, "id")
        current_type == Get(rule, "check_type")
    IN  IF current_type = "registry" THEN "registry"
        ELSE IF rule_id \in auditpol_to_secpol /\ current_type = "auditpol"
             THEN "auditpol"
        ELSE "none"

\* The branch of the if/elif the loop takes on a rule: the prior type of the
\* list that applies, or "none".
fix_branch(rule) ==
    LET rule_id      == Get(rule, "id")
        current_type == Get(rule, "check_type")
    IN  IF rule_id \in registry_to_secpol /\ current_type = "registry"
        THEN "registry"
        ELSE IF rule_id \in auditpol_to_secpol /\ current_type = "auditpol"
             THEN "auditpol"
        ELSE "none"

\* rule['check_type'] = 'secpol' in the branch taken.
fix_rule(rule) ==
    IF fix_branch(rule) = "none" THEN rule
    ELSE ("check_type" :> "secpol") @@ rule

\* changes_made.append(...) in the branch taken, rule after rule.
RECURSIVE change_lines(_)
change_lines(rules) ==
    IF rules = <<>> THEN <<>>
    ELSE LET rule == Head(rules)
         IN  (IF fix_branch(rule) = "none" THEN <<>>
              ELSE << "Rule " \o Get(rule, "id") \o ": "
                          \o fix_branch(rule) \o " → secpol" >>)
             \o change_lines(Tail(rules))

\* fix_check_types: the baseline with its rules fixed in place, and the
\* change list.
fix_check_types(doc) ==
    [baseline |->
        [doc EXCEPT !.rules = [i \in 1..Len(doc.rules) |->
                                   fix_rule(doc.rules[i])]],
     changes_made |-> change_lines(doc.rules)]

\* Baselines the corrector is given: rules on and off the lists, of every
\* check_type, and a rule that has neither an id nor a check_type.
LoadedIds == {"1.1.6", "18.9.33.6.3", "1.2.2", "9.9.9"}
LoadedTypes == {"registry", "auditpol", "secpol", "service"}

LoadedRules ==
    {[id |-> i, title |-> "Rule " \o i, check_type |-> t, skip |-> FALSE] :
        i \in LoadedIds, t \in LoadedTypes}
    \cup {[title |-> "Untitled"]}

\* The most rules a loaded baseline holds, and the most times the fix is
\* applied to it.
MaxRules == 2
MaxApplications == 2

LoadedBaselines ==
    {[metadata |-> [total_rules |-> Len(rs)], rules |-> rs] :
        rs \in UNION {[1..n -> LoadedRules] : n \in 0..MaxRules}}

InitFix ==
    /\ baseline \in LoadedBaselines
    /\ loaded = baseline
    /\ before = baseline
    /\ changes_made = <<>>
    /\ applications = 0
    /\ HarnessIdle
    /\ PipelineIdle
    /\ ValidatorIdle
    /\ MainIdle

\* baseline, changes_made = fix_check_types(baseline)
ApplyFixCheckTypes ==
    /\ applications < MaxApplications
    /\ baseline' = fix_check_types(baseline).baseline
    /\ changes_made' = fix_check_types(baseline).changes_made
    /\ before' = baseline
    /\ applications' = applications + 1
    /\ UNCHANGED <<fn, in_title, in_check, out, all_rules, row, pc, loaded,
                   validator_vars, main_vars>>

NextFix == ApplyFixCheckTypes

SpecFix == InitFix /\ [][NextFix]_vars

-----------------------------------------------------------------------------
(* fix_check_types.py: main *)

baseline_path == "baselines/cis-windows-server-2022-member-server.json"

\* Instants datetime.now() may return, in the order of time: the digits of
\* the date, of the time of day and of the microseconds.
Clock ==
    << [date |-> "20240101", time |-> "235959", micro |-> "000250"],
       [date |-> "20240102", time |-> "000000", micro |-> "417000"] >>

\* The instants of the clock from a given instant on.
NotBefore(t) ==
    {Clock[k] : k \in {k \in 1..Len(Clock) :
                          \E j \in 1..k : Clock[j] = t}}

\* datetime.strftime('%Y%m%d_%H%M%S')
strftime(t) == t.date \o "_" \o t.time

\* datetime.isoformat()
isoformat(t) ==
    SubSeq(t.date, 1, 4) \o "-" \o SubSeq(t.date, 5, 6) \o "-"
        \o SubSeq(t.date, 7, 8) \o "T"
        \o SubSeq(t.time, 1, 2) \o ":" \o SubSeq(t.time, 3, 4) \o ":"
        \o SubSeq(t.time, 5, 6) \o "." \o t.micro

\* backup_path, for a run that started at instant t.
backup_path(t) == baseline_path \o ".backup." \o strftime(t)

\* Mutant: the copy is not made.
copy2_nothing(files, src, dst) == files

\* shutil.copy2(src, dst): dst holds what src holds.
copy2(files, src, dst) == (dst :> files[src]) @@ files

\* save_baseline: the file at file_path holds the dumped document.  A
\* document of dicts with string keys, lists, strings, numbers and booleans
\* is loaded back from its dump as it was, so the file is the document.
save_baseline(files, doc, file_path) == (file_path :> doc) @@ files

\* "Update metadata", on a baseline that has the member 'metadata'.
update_metadata(doc, fixes, t) ==
    [doc EXCEPT !.metadata =
        ("last_modified" :> isoformat(t))
            @@ ("check_type_fixes" :> fixes) @@ @]

\* Baselines as the converter writes them: one row, create_baseline on the
\* rule it yields.
ConvertedTitles ==
    {"1.1.6 Relax minimum password length limits",
     "1.1.1 Ensure Minimum password length is set to 14 or more"}

ConvertedBaselines ==
    {create_baseline(
         <<build_rule(clean_text(t), clean_text(c), None)>>, input_file) :
        t \in ConvertedTitles, c \in {UiPathCheck, LabelledHiveCheck}}

\* The directory main starts in: no baseline file, or one that holds a
\* baseline with metadata or a baseline of the converter.
InitialDisks ==
    {NoFiles}
    \cup {baseline_path :> doc : doc \in LoadedBaselines \cup ConvertedBaselines}

InitMain ==
    /\ disk \in InitialDisks
    /\ now \in {Clock[k] : k \in 1..Len(Clock)}
    /\ main_pc = "start"
    /\ CorrectorIdle
    /\ HarnessIdle
    /\ PipelineIdle
    /\ ValidatorIdle

\* baseline = load_baseline(baseline_path) and the original counts.
LoadBaseline ==
    /\ main_pc = "start"
    /\ baseline_path \in DOMAIN disk
    /\ baseline' = disk[baseline_path]
    /\ loaded' = disk[baseline_path]
    /\ before' = disk[baseline_path]
    /\ main_pc' = "loaded"
    /\ UNCHANGED <<fn, in_title, in_check, out, all_rules, row, pc,
                   changes_made, applications, validator_vars, disk, now>>

\* load_baseline raises FileNotFoundError; main reports it and returns.
LoadBaselineNotFound ==
    /\ main_pc = "start"
    /\ baseline_path \notin DOMAIN disk
    /\ main_pc' = "not_found"
    /\ UNCHANGED <<fn, in_title, in_check, out, all_rules, row, pc,
                   baseline, loaded, changes_made, before, applications,
                   validator_vars, disk, now>>

\* "Create backup"
CreateBackup ==
    /\ main_pc = "loaded"
    /\ disk' = copy2(disk, baseline_path, backup_path(now))
    /\ main_pc' = "backed_up"
    /\ UNCHANGED <<fn, in_title, in_check, out, all_rules, row, pc,
                   baseline, loaded, changes_made, before, applications,
                   validator_vars, now>>

\* "Fix check types"
FixCheckTypes ==
    /\ main_pc = "backed_up"
    /\ baseline' = fix_check_types(baseline).baseline
    /\ changes_made' = fix_check_types(baseline).changes_made
    /\ before' = baseline
    /\ applications' = applications + 1
    /\ main_pc' = "fixed"
    /\ UNCHANGED <<fn, in_title, in_check, out, all_rules, row, pc, loaded,
                   validator_vars, disk, now>>

\* "if changes_made:" with a baseline that has metadata: the metadata is
\* updated and the baseline saved.
SaveBaseline ==
    /\ main_pc = "fixed"
    /\ changes_made # <<>>
    /\ "metadata" \in DOMAIN baseline
    /\ \E t \in NotBefore(now) :
        /\ baseline' = update_metadata(baseline, Len(changes_made), t)
        /\ disk' = save_baseline(
                       disk, update_metadata(baseline, Len(changes_made), t),
                       baseline_path)
    /\ main_pc' = "saved"
    /\ UNCHANGED <<fn, in_title, in_check, out, all_rules, row, pc, loaded,
                   changes_made, before, applications, validator_vars, now>>

\* "if changes_made:" with a baseline that has no member 'metadata':
\* baseline['metadata'] raises KeyError, main reports it and returns.
MetadataKeyError ==
    /\ main_pc = "fixed"
    /\ changes_made # <<>>
    /\ "metadata" \notin DOMAIN baseline
    /\ main_pc' = "KeyError"
    /\ UNCHANGED <<fn, in_title, in_check, out, all_rules, row, pc,
                   baseline, loaded, changes_made, before, applications,
                   validator_vars, disk, now>>

\* "else:" no changes needed.
NoChangesNeeded ==
    /\ main_pc = "fixed"
    /\ changes_made = <<>>
    /\ main_pc' = "no_changes"
    /\ UNCHANGED <<fn, in_title, in_check, out, all_rules, row, pc,
                   baseline, loaded, changes_made, before, applications,
                   validator_vars, disk, now>>

NextMain ==
    \/ LoadBaseline
    \/ LoadBaselineNotFound
    \/ CreateBackup
    \/ FixCheckTypes
    \/ SaveBaseline
    \/ MetadataKeyError
    \/ NoChangesNeeded

SpecMain == InitMain /\ [][NextMain]_vars

-----------------------------------------------------------------------------
(* validate_check_types.py: the validator *)

\* dict.get(key, default)
GetOr(d, key, default) == IF key \in DOMAIN d THEN d[key] ELSE default

secpol_keywords ==
    {"password", "account lockout", "user rights", "security options",
     "audit policy", "event log", "system services", "registry",
     "file system", "wireless network", "public key", "ipsec",
     "administrative templates", "windows settings", "security settings",
     "local policies", "account policies", "kerberos", "domain controller",
     "domain member", "stand-alone", "domain", "local computer"}

registry_keywords ==
    {"registry", "regedit", "hklm", "hkcu", "hkcr", "hku",
     "currentcontrolset", "software\\", "system\\", "windows\\",
     "microsoft\\", "policies\\", "explorer\\", "internet settings",
     "network\\", "services\\", "drivers\\", "control\\"}

auditpol_keywords ==
    {"audit", "auditing", "audit policy", "audit settings",
     "success and failure", "success", "failure", "no auditing",
     "auditpol", "audit policy change", "logon audit", "object access audit"}

\* What a block of analyze_rule assigns when its conditions hold, and the
\* value that stands for a block whose conditions do not hold.
Assigns(type, conf, reason) ==
    [type |-> type, confidence |-> conf, reason |-> reason]

NotFired == Assigns(None, None, None)

\* "Check title patterns"
title_signal(title) ==
    IF /\ AnyIn(auditpol_keywords, title)
       /\ Contains(title, "audit")
       /\ (Contains(title, "policy") \/ Contains(title, "auditing"))
    THEN Assigns("auditpol", "high", "Title contains audit policy keywords")
    ELSE NotFired

\* "Check description patterns"
description_signal(description) ==
    IF /\ AnyIn(registry_keywords, description)
       /\ Contains(description, "registry")
       /\ (Contains(description, "key") \/ Contains(description, "value"))
    THEN Assigns("registry", "high",
                 "Description mentions registry keys/values")
    ELSE NotFired

\* "Check remediation procedure"
remediation_signal(remediation) ==
    IF remediation = "" THEN NotFired
    ELSE IF /\ Contains(remediation, "registry")
            /\ (Contains(remediation, "hklm") \/ Contains(remediation, "hkcu"))
         THEN Assigns("registry", "high",
                      "Remediation mentions registry paths")
    ELSE IF \/ Contains(remediation, "security settings")
            \/ Contains(remediation, "policies")
         THEN IF Contains(remediation, "audit")
              THEN Assigns("auditpol", "medium",
                           "Remediation mentions audit policy settings")
              ELSE Assigns("secpol", "medium",
                           "Remediation mentions security policy settings")
    ELSE NotFired

\* Mutant: only an hkcu path counts as a registry path.
audit_procedure_signal_hkcu_only(audit_procedure) ==
    IF audit_procedure = "" THEN NotFired
    ELSE IF StartsWith(audit_procedure, "hkcu")
         THEN Assigns("registry", "high",
                      "Audit procedure specifies registry path")
    ELSE IF Contains(audit_procedure, "auditpol")
         THEN Assigns("auditpol", "high", "Audit procedure mentions auditpol")
    ELSE IF \/ Contains(audit_procedure, "secedit")
            \/ Contains(audit_procedure, "security policy")
         THEN Assigns("secpol", "high",
                      "Audit procedure mentions security policy")
    ELSE NotFired

\* "Check audit procedure"
audit_procedure_signal(audit_procedure) ==
    IF audit_procedure = "" THEN NotFired
    ELSE IF \/ StartsWith(audit_procedure, "hklm")
            \/ StartsWith(audit_procedure, "hkcu")
         THEN Assigns("registry", "high",
                      "Audit procedure specifies registry path")
    ELSE IF Contains(audit_procedure, "auditpol")
         THEN Assigns("auditpol", "high", "Audit procedure mentions auditpol")
    ELSE IF \/ Contains(audit_procedure, "secedit")
            \/ Contains(audit_procedure, "security policy")
         THEN Assigns("secpol", "high",
                      "Audit procedure mentions security policy")
    ELSE NotFired

\* "Check target field"
target_signal(target) ==
    IF target = "" THEN NotFired
    ELSE IF Contains(target, "registry")
         THEN Assigns("registry", "high", "Target field specifies Registry")
    ELSE IF Contains(target, "audit policy")
         THEN Assigns("auditpol", "high",
                      "Target field specifies Audit Policy")
    ELSE IF Contains(target, "security") \/ Contains(target, "policies")
         THEN Assigns("secpol", "medium",
                      "Target field mentions security/policies")
    ELSE NotFired

\* "Special cases based on rule content": the four blocks that follow the
\* target block.
password_special_case(title, description) ==
    IF /\ Contains(title, "password") \/ Contains(title, "account lockout")
       /\ ~Contains(title, "audit")
       /\ ~Contains(description, "audit")
    THEN Assigns("secpol", "high",
                 "Password/account lockout settings are security policy")
    ELSE NotFired

user_rights_special_case(title) ==
    IF Contains(title, "user rights") \/ Contains(title, "user right")
    THEN Assigns("secpol", "high", "User rights are security policy settings")
    ELSE NotFired

services_special_case(title) ==
    IF Contains(title, "system services") \/ Contains(title, "service")
    THEN Assigns("secpol", "high",
                 "System services are security policy settings")
    ELSE NotFired

file_system_special_case(title) ==
    IF Contains(title, "file system") \/ Contains(title, "ntfs")
    THEN Assigns("secpol", "high", "File system settings are security policy")
    ELSE NotFired

\* Mutant: a block assigns only while no suggestion has been made.
apply_signal_first_wins(s, signal) ==
    IF signal = NotFired THEN s
    ELSE IF s.suggested_type # None
         THEN [s EXCEPT !.reasons = Append(s.reasons, signal.reason)]
    ELSE [suggested_type |-> signal.type,
          confidence |-> signal.confidence,
          reasons |-> Append(s.reasons, signal.reason)]

\* Mutant: the confidence only rises (low < medium < high).
apply_signal_highest_confidence(s, signal) ==
    IF signal = NotFired THEN s
    ELSE [suggested_type |-> signal.type,
          confidence |-> IF s.confidence = "high" THEN "high"
                         ELSE signal.confidence,
          reasons |-> Append(s.reasons, signal.reason)]

\* The three statements of a block that fires: suggested_type and confidence
\* are assigned, the reason is appended.
apply_signal(s, signal) ==
    IF signal = NotFired THEN s
    ELSE [suggested_type |-> signal.type,
          confidence |-> signal.confidence,
          reasons |-> Append(s.reasons, signal.reason)]

\* "If no specific indicators found, default to secpol for security-related
\* rules"
apply_default(s, title) ==
    IF Falsy(s.suggested_type) /\ AnyIn(secpol_keywords, title)
    THEN [suggested_type |-> "secpol",
          confidence |-> "low",
          reasons |-> Append(s.reasons,
                             "Default to secpol for security-related rules")]
    ELSE s

\* analyze_rule: the blocks in the order of the source, each on the state the
\* block before it left.
analyze_rule(rule) ==
    LET title           == lower(GetOr(rule, "title", ""))
        description     == lower(GetOr(rule, "description", ""))
        remediation     == lower(GetOr(rule, "remediation_procedure", ""))
        audit_procedure == lower(GetOr(rule, "audit_procedure", ""))
        target          == lower(GetOr(rule, "target", ""))
        s1 == apply_signal(NoAnalysis, title_signal(title))
        s2 == apply_signal(s1, description_signal(description))
        s3 == apply_signal(s2, remediation_signal(remediation))
        s4 == apply_signal(s3, audit_procedure_signal(audit_procedure))
        s5 == apply_signal(s4, target_signal(target))
        s6 == apply_signal(s5, password_special_case(title, description))
        s7 == apply_signal(s6, user_rights_special_case(title))
        s8 == apply_signal(s7, services_special_case(title))
        s9 == apply_signal(s8, file_system_special_case(title))
    IN  apply_default(s9, title)

\* The per-type counters validate_baseline creates.
summary_types == {"secpol", "registry", "auditpol"}

\* results as validate_baseline initialises it.
initial_results(rules) ==
    [total_rules |-> Len(rules),
     correct |-> 0,
     incorrect |-> 0,
     uncertain |-> 0,
     issues |-> <<>>,
     summary |-> [t \in summary_types |->
                      [correct |-> 0, incorrect |-> 0, uncertain |-> 0]]]

\* The status of a rule: the branch of the loop body it takes.
rule_status(rule, a) ==
    IF Falsy(a.suggested_type) THEN "UNCERTAIN"
    ELSE IF a.suggested_type = GetOr(rule, "check_type", "Unknown")
         THEN "CORRECT"
    ELSE "INCORRECT"

\* The counter a status increments.
counter_of(st) ==
    IF st = "CORRECT" THEN "correct"
    ELSE IF st = "INCORRECT" THEN "incorrect"
    ELSE "uncertain"

\* The issue the loop body appends for a rule that is not CORRECT.
issue_of(rule, a) ==
    IF Falsy(a.suggested_type)
    THEN [rule_id |-> GetOr(rule, "id", "Unknown"),
          title |-> GetOr(rule, "title", "No title"),
          current_type |-> GetOr(rule, "check_type", "Unknown"),
          suggested_type |-> "Unknown",
          confidence |-> "low",
          reasons |-> <<"Could not determine appropriate check type">>]
    ELSE [rule_id |-> GetOr(rule, "id", "Unknown"),
          title |-> GetOr(rule, "title", "No title"),
          current_type |-> GetOr(rule, "check_type", "Unknown"),
          suggested_type |-> a.suggested_type,
          confidence |-> a.confidence,
          reasons |-> a.reasons]

\* results['correct'] += 1 (or 'incorrect', 'uncertain'): the statement that
\* runs before the per-type counter is looked up.
count_status(res, st) ==
    [res EXCEPT ![counter_of(st)] = @ + 1]

\* results['summary'][current_type][...] += 1 and, for a rule that is not
\* CORRECT, results['issues'].append(...).
count_summary_and_issue(res, rule, a) ==
    LET st == rule_status(rule, a)
        current_type == GetOr(rule, "check_type", "Unknown")
        counted == [res EXCEPT !.summary[current_type][counter_of(st)] = @ + 1]
    IN  IF st = "CORRECT" THEN counted
        ELSE [counted EXCEPT !.issues = Append(@, issue_of(rule, a))]

\* Rule records the validator is given: every combination of a title, a
\* description, a remediation text, an audit procedure and a target field.
RuleTitles ==
    {"Ensure 'Turn off Autoplay' is set to 'Enabled'",
     "Ensure 'Audit Policy Change' is set to 'Success'",
     "Ensure 'Minimum password length' is set to '14 or more'",
     "Turn off Push To Install service",
     "Domain member: Digitally sign secure channel data",
     "Audit: Account Lockout events"}

RuleDescriptions ==
    {"",
     "This registry value controls the setting.",
     "Records audit events."}

RuleRemediations ==
    {"",
     "Set the registry value HKLM\\SOFTWARE\\Policies\\X to 1",
     "Computer Configuration\\Policies\\Windows Settings\\Security Settings",
     "Computer Configuration\\Policies\\Advanced Audit Policy Configuration"}

RuleAuditProcedures ==
    {"",
     "HKLM\\SOFTWARE\\Policies\\X:Enabled",
     "Run auditpol /get /category:*",
     "Run secedit /export and read the file"}

RuleTargets ==
    {"", "Registry", "Audit Policy", "Security Options", "Service"}

RuleTypes == {"registry", "secpol", "auditpol", "service"}

FullRules ==
    {[id |-> "2.3.1.1", title |-> t, description |-> d,
      remediation_procedure |-> r, audit_procedure |-> a, target |-> g,
      check_type |-> c] :
        t \in RuleTitles, d \in RuleDescriptions, r \in RuleRemediations,
        a \in RuleAuditProcedures, g \in RuleTargets, c \in RuleTypes}

\* Rule records as the converter writes them (no description, remediation or
\* audit procedure; check_type audit_policy or security_policy), as the
\* corrector leaves them, and a record that has only an id.
SparseRules ==
    {[id |-> "17.5.1", title |-> "17.5.1 Audit Logon",
      check_type |-> "audit_policy", skip |-> FALSE],
     [id |-> "2.3.1.1", title |-> "2.3.1.1 Accounts: Local Policy",
      check_type |-> "security_policy", skip |-> FALSE],
     [id |-> "1.1.1", title |-> "1.1.1 Ensure Minimum password length",
      check_type |-> "registry", target |-> "HKLM:\\SOFTWARE\\X",
      skip |-> FALSE],
     [id |-> "1.1.6", title |-> "1.1.6 Relax minimum password length limits",
      check_type |-> "secpol", skip |-> FALSE],
     [id |-> "18.10.3.1", title |-> "Ensure 'Turn off Autoplay' is 'Enabled'",
      audit_procedure |-> "HKLM\\SOFTWARE\\Policies\\X:Enabled",
      check_type |-> "registry"],
     [id |-> "9.9.9"]}

\* The most rules of a baseline of sparse records.
MaxValidated == 2

ValidatedBaselines ==
    {[rules |-> <<r>>] : r \in FullRules}
    \cup {[rules |-> rs] :
            rs \in UNION {[1..n -> SparseRules] : n \in 0..MaxValidated}}

InitValidator ==
    /\ baseline \in ValidatedBaselines
    /\ results = initial_results(baseline.rules)
    /\ rule_index = 0
    /\ analysis = NoAnalysis
    /\ status = None
    /\ validator_pc = "loop"
    /\ loaded = NoBaseline
    /\ changes_made = <<>>
    /\ before = NoBaseline
    /\ applications = 0
    /\ HarnessIdle
    /\ PipelineIdle
    /\ MainIdle

\* One turn of "for rule in rules" that runs to its end.
ValidateRule ==
    /\ validator_pc = "loop"
    /\ rule_index < Len(baseline.rules)
    /\ LET rule == baseline.rules[rule_index + 1]
           a    == analyze_rule(rule)
       IN  /\ GetOr(rule, "check_type", "Unknown") \in summary_types
           /\ analysis' = a
           /\ status' = rule_status(rule, a)
           /\ results' = count_summary_and_issue(
                             count_status(results, rule_status(rule, a)),
                             rule, a)
    /\ rule_index' = rule_index + 1
    /\ UNCHANGED <<fn, in_title, in_check, out, all_rules, row, pc,
                   baseline, loaded, changes_made, before, applications,
                   validator_pc, main_vars>>

\* One turn on a rule whose check_type has no per-type counter:
\* results['summary'][current_type] raises KeyError after the total counter
\* was incremented, validate_baseline does not return and main reports the
\* error without writing the report.
ValidateRuleKeyError ==
    /\ validator_pc = "loop"
    /\ rule_index < Len(baseline.rules)
    /\ LET rule == baseline.rules[rule_index + 1]
           a    == analyze_rule(rule)
       IN  /\ GetOr(rule, "check_type", "Unknown") \notin summary_types
           /\ analysis' = a
           /\ results' = count_status(results, rule_status(rule, a))
    /\ rule_index' = rule_index + 1
    /\ validator_pc' = "KeyError"
    /\ UNCHANGED <<fn, in_title, in_check, out, all_rules, row, pc,
                   baseline, loaded, changes_made, before, applications,
                   status, main_vars>>

\* "return results", after the last rule.
ReturnResults ==
    /\ validator_pc = "loop"
    /\ rule_index = Len(baseline.rules)
    /\ validator_pc' = "returned"
    /\ UNCHANGED <<fn, in_title, in_check, out, all_rules, row, pc,
                   baseline, loaded, changes_made, before, applications,
                   results, rule_index, analysis, status, main_vars>>

NextValidator ==
    \/ ValidateRule
    \/ ValidateRuleKeyError
    \/ ReturnResults

SpecValidator == InitValidator /\ [][NextValidator]_vars

-----------------------------------------------------------------------------
(* Properties of the classifier, checked under SpecFn *)

\* The user-rights-assignment phrases the specification names for its
\* first classifier rule.
UserRightsPhrases ==
    {"allow log on", "back up files and directories", "shut down the system"}

TitleIsUserRight(title) == AnyIn(UserRightsPhrases, lower(title))

TitleHasServiceKeyword(title) == AnyIn(service_title_keywords, lower(title))

\* The two path markers the specification asks of a service row.
BothServiceMarkers(check) ==
    /\ Contains(lower(check), "services\\")
    /\ Contains(lower(check), "currentcontrolset\\services\\")

\* The registry-hive markers of the specification's second rule.
RegistryHiveMarkers ==
    {"hklm\\", "hkcu\\", "hkey_local_machine", "hkey_current_user",
     "registry"}

Classified == fn = "determine_check_type"

\* C1, as claimed: a row whose title matches a user-rights-assignment phrase
\* and whose check text contains the word "registry" is classified
\* security_policy, not registry.
C1_UserRightsBeforeRegistry ==
    (/\ Classified
     /\ TitleIsUserRight(in_title)
     /\ Contains(lower(in_check), "registry"))
        => out = "security_policy"

\* C1, amended: such a row is classified registry, or service when its title
\* also holds a service keyword; there is no user-rights rule, and the title's
\* service rule comes before the registry rule.
C1_UserRightsRowIsRegistryOrService ==
    (/\ Classified
     /\ TitleIsUserRight(in_title)
     /\ Contains(lower(in_check), "registry"))
        => out = IF TitleHasServiceKeyword(in_title)
                 THEN "service" ELSE "registry"

C1_Witness ==
    /\ Classified
    /\ in_title = "Shut down the system"
    /\ in_check = "The registry value is HKLM\\Software\\X"
    /\ out = "registry"

\* C2, as claimed: a row whose title holds a service keyword but whose check
\* text does not hold both the services\ marker and the
\* currentcontrolset\services\ path is not classified service.
C2_ServiceNeedsBothSignals ==
    (/\ Classified
     /\ TitleHasServiceKeyword(in_title)
     /\ ~BothServiceMarkers(in_check))
        => out # "service"

\* C2, amended: a row whose title holds a service keyword is classified
\* service whatever its check text holds; the title keyword alone suffices.
C2_ServiceKeywordSuffices ==
    (Classified /\ TitleHasServiceKeyword(in_title)) => out = "service"

C2_Witness ==
    /\ Classified
    /\ in_title = "Print Spooler (Spooler) service"
    /\ in_check = "Services\\Spooler"
    /\ ~BothServiceMarkers(in_check)
    /\ out = "service"

\* No rule of the specification's decision list fires on (title, check): no
\* user-rights phrase, no registry-hive marker, no service signal (keyword
\* and both markers), no audit or logon vocabulary.
NoSignal(title, check) ==
    /\ ~TitleIsUserRight(title)
    /\ ~AnyIn(RegistryHiveMarkers, lower(check))
    /\ ~(TitleHasServiceKeyword(title) /\ BothServiceMarkers(check))
    /\ ~AnyIn(audit_title_keywords, lower(title))

\* C3, as claimed: a row on which no signal is present is classified
\* security_policy.
C3_DefaultIsSecurityPolicy ==
    (Classified /\ NoSignal(in_title, in_check)) => out = "security_policy"

\* C3, amended: a row on which no signal is present is classified registry,
\* the fallback, unless its title holds a service keyword (service) or its
\* title holds "security policy", "secedit" or "local policy" while its check
\* text holds none of regedit, hklm, hkcu, hkey (security_policy).
C3_DefaultIsRegistry ==
    (Classified /\ NoSignal(in_title, in_check))
        => out = IF TitleHasServiceKeyword(in_title) THEN "service"
                 ELSE IF /\ AnyIn(security_title_keywords, lower(in_title))
                         /\ ~AnyIn(registry_check_keywords, lower(in_check))
                      THEN "security_policy"
                 ELSE "registry"

C3_Witness ==
    /\ Classified
    /\ NoSignal(in_title, in_check)
    /\ in_title = "Ensure Minimum password length is set to 14 or more"
    /\ in_check = "Navigate to the UI Path: Computer Configuration\\Policies"
    /\ out = "registry"

-----------------------------------------------------------------------------
(* Properties of the converter, checked under Spec and SpecFn *)

\* The dotted numeric sequence that starts at position i of t: how many
\* components it has and the position after its last digit.
RECURSIVE DottedFrom(_, _)
DottedFrom(t, i) ==
    LET e == DigitRunEnd(t, i)
    IN  IF e = i THEN [n |-> 0, end |-> i]
        ELSE IF CharAt(t, e) # "." THEN [n |-> 1, end |-> e]
        ELSE LET r == DottedFrom(t, e + 1)
             IN  IF r.n = 0 THEN [n |-> 1, end |-> e]
                 ELSE [n |-> r.n + 1, end |-> r.end]

\* The whole dotted sequence a title starts with when it has three or more
\* components, None otherwise.
WholeDottedId(title) ==
    LET d == DottedFrom(title, 1)
    IN  IF d.n >= 3 THEN SubSeq(title, 1, d.end - 1) ELSE None

LastRule == all_rules[Len(all_rules)]

\* C4, as claimed: the row whose title starts with a dotted sequence of three
\* or more components yields a rule whose id is that whole sequence, and any
\* other row yields no rule.
C4_IdIsWholeSequence ==
    row # NoRow =>
        LET id == WholeDottedId(clean_text(row.title))
        IN  IF id # None
            THEN row.emitted /\ LastRule.id = id
            ELSE ~row.emitted

\* C5, as claimed: no two rules of all_rules carry the same id.
C5_IdsUnique ==
    \A i, j \in 1..Len(all_rules) :
        i # j => all_rules[i].id # all_rules[j].id

RegistryFields == {"target", "registry_name", "expected_value"}
ServiceFields == {"service_name", "expected_status", "expected_start_type"}
AuditFields == {"audit_category", "audit_subcategory", "expected_setting"}

OwnFields(check_type) ==
    IF check_type = "registry" THEN RegistryFields
    ELSE IF check_type = "service" THEN ServiceFields
    ELSE IF check_type = "audit_policy" THEN AuditFields
    ELSE {}

\* C6: every rule of all_rules carries, of the type-conditional sub-fields,
\* only those of its own check_type; a security_policy rule carries none.
C6_TypeGatedFields ==
    \A i \in 1..Len(all_rules) :
        (DOMAIN all_rules[i])
            \cap (RegistryFields \cup ServiceFields \cup AuditFields)
                \subseteq OwnFields(all_rules[i].check_type)

\* A service rule was built from a check text that also holds a registry
\* path, a value name and audit labels, after an audit_policy rule.
C6_Witness ==
    /\ Len(all_rules) = 2
    /\ all_rules[1].check_type = "audit_policy"
    /\ "audit_category" \in DOMAIN all_rules[1]
    /\ row.emitted
    /\ row.check = AllLabelsCheck
    /\ LastRule.check_type = "service"
    /\ ServiceFields \subseteq DOMAIN LastRule

\* C7, as claimed: whenever parse_registry_target finds a path, the result
\* starts with the short hive followed by :\ and parse_registry_target
\* returns the result again when applied to it.
C7_TargetNormalizedAndIdempotent ==
    (fn = "parse_registry_target" /\ out # None)
        => /\ StartsWith(out, "HKLM:\\") \/ StartsWith(out, "HKCU:\\")
           /\ parse_registry_target(out) = out

\* C8, as claimed: the row with the title "1.1.1 Ensure Minimum password
\* length is set to 14 or more" and a check text of the labelled form yields
\* a rule with id 1.1.1, check_type registry and the target HKLM:\ joined to
\* the labelled path.
C8_LabelledHiveEndToEnd ==
    (/\ row.title = "1.1.1 Ensure Minimum password length is set to 14 or more"
     /\ row.check = LabelledHiveCheck)
        => /\ row.emitted
           /\ LastRule.id = "1.1.1"
           /\ LastRule.check_type = "registry"
           /\ Get(LastRule, "target")
                  = "HKLM:\\SYSTEM\\CurrentControlSet\\Control\\Lsa"

-----------------------------------------------------------------------------
(* Properties of the corrector, checked under SpecFix *)

\* C9: a second application of fix_check_types returns an empty change list
\* and leaves the baseline as the first application left it.
C9_FixIdempotent ==
    applications >= 2 => (changes_made = <<>> /\ baseline = before)

\* The first application changed the loaded baseline, the second ran.
C9_Witness ==
    /\ applications = 2
    /\ before # loaded
    /\ baseline = before

\* The allow-list as triples: rule id, prior type, corrected type.
AllowList ==
    {<<id, "registry", "secpol">> : id \in registry_to_secpol}
    \cup {<<id, "auditpol", "secpol">> : id \in auditpol_to_secpol}

Listing(rule) ==
    {e \in AllowList :
        Get(rule, "id") = e[1] /\ Get(rule, "check_type") = e[2]}

\* C10: an application of fix_check_types keeps the number and order of the
\* rules and every other member of the baseline; a rule that is not listed
\* with its current type is untouched, and a rule that is has only its
\* check_type changed, to the listed corrected type.
C10_FixFrame ==
    applications >= 1 =>
        /\ DOMAIN baseline = DOMAIN before
        /\ \A k \in DOMAIN before \ {"rules"} : baseline[k] = before[k]
        /\ Len(baseline.rules) = Len(before.rules)
        /\ \A i \in 1..Len(before.rules) :
            LET b == before.rules[i]
                a == baseline.rules[i]
            IN  IF Listing(b) = {} THEN a = b
                ELSE /\ DOMAIN a = DOMAIN b
                     /\ \A k \in DOMAIN b \ {"check_type"} : a[k] = b[k]
                     /\ \E e \in Listing(b) : a.check_type = e[3]

\* One application corrected the first rule and left alone a second rule
\* that is listed, but with another current type.
C10_Witness ==
    /\ applications = 1
    /\ Len(before.rules) = 2
    /\ Get(before.rules[1], "check_type") = "registry"
    /\ Get(baseline.rules[1], "check_type") = "secpol"
    /\ Get(before.rules[2], "id") = "1.1.6"
    /\ Get(before.rules[2], "check_type") = "auditpol"
    /\ baseline.rules[2] = before.rules[2]
    /\ Len(changes_made) = 1

-----------------------------------------------------------------------------
(* Properties of the validator, checked under SpecValidator *)

\* The rule the loop of validate_baseline last took.
CurrentRule == baseline.rules[rule_index]

\* The loop has taken a rule and the turn on it ran to its end.
RuleTaken == rule_index >= 1 /\ validator_pc # "KeyError"

\* The lowered text of a field of a rule, as analyze_rule reads it.
Text(rule, field) == lower(GetOr(rule, field, ""))

\* A registry rule whose audit procedure starts with hklm.
HklmRegistryRule(rule) ==
    /\ GetOr(rule, "check_type", "Unknown") = "registry"
    /\ StartsWith(Text(rule, "audit_procedure"), "hklm")

\* The five signals the specification names, in its order, and the four
\* special cases that follow them in the code.
FiveSignals(rule) ==
    << title_signal(Text(rule, "title")),
       description_signal(Text(rule, "description")),
       remediation_signal(Text(rule, "remediation_procedure")),
       audit_procedure_signal(Text(rule, "audit_procedure")),
       target_signal(Text(rule, "target")) >>

SpecialCases(rule) ==
    << password_special_case(Text(rule, "title"), Text(rule, "description")),
       user_rights_special_case(Text(rule, "title")),
       services_special_case(Text(rule, "title")),
       file_system_special_case(Text(rule, "title")) >>

Fired(signals) == {i \in 1..Len(signals) : signals[i] # NotFired}

\* The last signal of a list that fired, NotFired when none did.
LastFired(signals) ==
    IF Fired(signals) = {} THEN NotFired
    ELSE signals[CHOOSE i \in Fired(signals) :
                     \A j \in Fired(signals) : j <= i]

\* C11, as claimed: a registry rule whose audit procedure starts with hklm
\* gets the suggestion registry and is counted CORRECT, whatever its other
\* fields hold.
C11_HklmRegistryAgrees ==
    (RuleTaken /\ HklmRegistryRule(CurrentRule))
        => /\ analysis.suggested_type = "registry"
           /\ status = "CORRECT"

\* C11, amended: such a rule gets the suggestion registry and is counted
\* CORRECT exactly when no special case fires on its title and its target
\* field either fires no signal or assigns registry; otherwise the suggestion
\* is the type the last of these later blocks assigned and the rule is
\* counted INCORRECT.
C11_HklmRegistryAgreesUnlessOverridden ==
    (RuleTaken /\ HklmRegistryRule(CurrentRule))
        => LET later == <<target_signal(Text(CurrentRule, "target"))>>
                            \o SpecialCases(CurrentRule)
           IN  IF LastFired(later).type \in {None, "registry"}
               THEN /\ analysis.suggested_type = "registry"
                    /\ status = "CORRECT"
                    /\ results.correct >= 1
               ELSE /\ analysis.suggested_type = LastFired(later).type
                    /\ analysis.suggested_type \in {"auditpol", "secpol"}
                    /\ status = "INCORRECT"
                    /\ results.issues # <<>>

\* The title and the remediation text pointed elsewhere, the audit procedure
\* starts with HKLM, and the rule was counted CORRECT without an issue.
C11_Witness ==
    /\ validator_pc = "returned"
    /\ Len(baseline.rules) = 1
    /\ HklmRegistryRule(CurrentRule)
    /\ title_signal(Text(CurrentRule, "title")).type = "auditpol"
    /\ remediation_signal(Text(CurrentRule, "remediation_procedure")).type
           = "secpol"
    /\ CurrentRule.target = "Service"
    /\ status = "CORRECT"
    /\ results.correct = 1
    /\ results.issues = <<>>

\* C12, as claimed: the suggestion is the type assigned by the last of the
\* five signals (title, description, remediation, audit procedure, target)
\* that fired; so when the target signal fires, it is the target's type.
C12_LastOfFiveWins ==
    (RuleTaken /\ LastFired(FiveSignals(CurrentRule)) # NotFired)
        => analysis.suggested_type = LastFired(FiveSignals(CurrentRule)).type

\* C12, amended: the suggestion is the type assigned by the last block that
\* fired of the five signals followed by the four special cases on the title;
\* when none fired it is secpol if the title holds a secpol keyword and absent
\* otherwise.  When the target signal fires and no special case does, it is
\* the target's type.
C12_LastOfNineWins ==
    RuleTaken =>
        LET last == LastFired(FiveSignals(CurrentRule)
                                  \o SpecialCases(CurrentRule))
        IN  /\ analysis.suggested_type =
                   IF last # NotFired THEN last.type
                   ELSE IF AnyIn(secpol_keywords, Text(CurrentRule, "title"))
                        THEN "secpol"
                   ELSE None
            /\ (/\ target_signal(Text(CurrentRule, "target")) # NotFired
                /\ Fired(SpecialCases(CurrentRule)) = {})
                   => analysis.suggested_type
                          = target_signal(Text(CurrentRule, "target")).type

\* Four of the five signals fired with three different types; the target
\* signal fired last of them and no special case did.
C12_Witness ==
    /\ RuleTaken
    /\ title_signal(Text(CurrentRule, "title")).type = "auditpol"
    /\ remediation_signal(Text(CurrentRule, "remediation_procedure")).type
           = "secpol"
    /\ audit_procedure_signal(Text(CurrentRule, "audit_procedure")).type
           = "registry"
    /\ target_signal(Text(CurrentRule, "target")).type = "auditpol"
    /\ Fired(SpecialCases(CurrentRule)) = {}
    /\ Len(analysis.reasons) = 4
    /\ analysis.suggested_type = "auditpol"

\* The confidences the blocks that fired on a rule assigned.
FiredConfidences(rule) ==
    LET blocks == FiveSignals(rule) \o SpecialCases(rule)
    IN  {blocks[i].confidence : i \in Fired(blocks)}

\* C13, as claimed: the confidence is high when a block that assigns high
\* fired, medium when only blocks that assign medium fired, and low when no
\* block fired; it is the same in whatever order the blocks are taken.
C13_ConfidenceIsStrongestSignal ==
    RuleTaken =>
        analysis.confidence =
            IF "high" \in FiredConfidences(CurrentRule) THEN "high"
            ELSE IF "medium" \in FiredConfidences(CurrentRule) THEN "medium"
            ELSE "low"

\* C13, amended: the confidence is the one assigned by the last block that
\* fired, and low when no block fired.
C13_ConfidenceIsLastSignal ==
    RuleTaken =>
        LET last == LastFired(FiveSignals(CurrentRule)
                                  \o SpecialCases(CurrentRule))
        IN  analysis.confidence =
                IF last # NotFired THEN last.confidence ELSE "low"

\* The audit procedure assigned registry with high confidence, the target
\* field then assigned secpol with medium confidence.
C13_Witness ==
    /\ RuleTaken
    /\ audit_procedure_signal(Text(CurrentRule, "audit_procedure")).confidence
           = "high"
    /\ target_signal(Text(CurrentRule, "target")).confidence = "medium"
    /\ Fired(SpecialCases(CurrentRule)) = {}
    /\ analysis.suggested_type = "secpol"
    /\ analysis.confidence = "medium"

\* The check types of the specification's closed enumeration.
ClosedEnumeration ==
    {"registry", "service", "audit_policy", "auditpol", "security_policy",
     "secpol"}

\* The suggestion for a rule is absent or differs from its stored type.
HasIssue(rule) ==
    \/ Falsy(analyze_rule(rule).suggested_type)
    \/ analyze_rule(rule).suggested_type
           # GetOr(rule, "check_type", "Unknown")

\* C16, as claimed: on a baseline whose rules all carry a check_type of the
\* closed enumeration, validate_baseline does not stop on an error, and the
\* report it returns has correct + incorrect + uncertain = total_rules and as
\* many issues as incorrect + uncertain, one for each rule whose suggestion is
\* absent or differs from its stored type.
C16_ReportAccounting ==
    (\A i \in 1..Len(baseline.rules) :
        GetOr(baseline.rules[i], "check_type", "Unknown")
            \in ClosedEnumeration)
        => /\ validator_pc # "KeyError"
           /\ validator_pc = "returned"
               => /\ results.correct + results.incorrect + results.uncertain
                         = results.total_rules
                  /\ Len(results.issues)
                         = results.incorrect + results.uncertain
                  /\ Len(results.issues)
                         = Cardinality({i \in 1..Len(baseline.rules) :
                                           HasIssue(baseline.rules[i])})

-----------------------------------------------------------------------------
(* Properties of the corrector's main, checked under SpecMain *)

\* What a path holds, None when there is no such file.
FileAt(files, path) == Get(files, path)

\* C14: a step that changes what the baseline file holds is taken with a
\* backup file that holds what the baseline file held; and while there is no
\* baseline file no step writes a file and the run goes nowhere but to its
\* end.
C14_BackupBeforeOverwrite ==
    [][ /\ FileAt(disk', baseline_path) # FileAt(disk, baseline_path)
            => /\ backup_path(now) \in DOMAIN disk
               /\ disk[backup_path(now)] = disk[baseline_path]
        /\ baseline_path \notin DOMAIN disk
            => /\ disk' = disk
               /\ main_pc' = "not_found" ]_vars

\* The run saved a corrected baseline, and the backup holds the baseline as
\* it was loaded.
C14_Witness ==
    /\ main_pc = "saved"
    /\ disk[baseline_path] # loaded
    /\ disk[backup_path(now)] = loaded
    /\ disk[baseline_path].rules # loaded.rules

\* The run is over.
MainEnded == main_pc \in {"not_found", "saved", "KeyError", "no_changes"}

\* C15, as claimed: a run that applied n >= 1 fixes ends with a baseline file
\* that holds the corrected rules and metadata whose check_type_fixes is n,
\* the number of change lines.
C15_FixCountSaved ==
    (MainEnded /\ applications = 1 /\ Len(changes_made) >= 1)
        => LET file == disk[baseline_path]
           IN  /\ file.rules = fix_check_types(loaded).baseline.rules
               /\ "metadata" \in DOMAIN file
               /\ Get(file.metadata, "check_type_fixes") = Len(changes_made)

=============================================================================
